---------------------------- MODULE Spec2Model ----------------------------
(***************************************************************************)
(* A model of amos3: the AMOS client (amos3/client.py) and the two batch   *)
(* downloaders, amos3/data.py (local filesystem) and amos3/s3data.py       *)
(* (object store, sequential or through a multiprocessing pool).           *)
(*                                                                         *)
(* Dates are triples <<year, month, day>> ordered as datetime orders them; *)
(* Python's None is the empty tuple.  A month is a pair <<year, month>>.   *)
(* A store key is <<camera, year, month, entry>>; info.json of a camera is *)
(* <<camera, 0, 0, 0>> and the camera's own path is <<camera>>.            *)
(***************************************************************************)
EXTENDS Integers, Sequences, FiniteSets, TLC

VARIABLES
    camera_db,      \* upstream: camera id -> the response of webcam_info
    archives,       \* upstream: month -> what fetching that month's ZIP yields
    args,           \* the setting: the arguments of every call, and whether writes may fail
    run,            \* how many calls of build_image_database were started
    pc,             \* the current call: idle, running, returned, raised, crashed
    task,           \* per position of camera_id_list: that camera's sync
    start_date,     \* data.py: the local start_date of build_image_database
    end_date,       \* data.py: the local end_date of build_image_database
    dirs,           \* local filesystem: the cameras whose directory exists
    store,          \* destination: key -> bytes
    log,            \* history: per call, its flag, outcome and the store it left
    planned,        \* history: <<call, camera, year, month>> the month loop is to reach
    fetched,        \* history: <<call, camera, year, month>> of get_camera_zip calls
    written,        \* history: <<call, key>> of every destination write
    failed,         \* history: <<call, camera, year, month>> of months not merged
    zip_url,        \* client: the address save_camera_zip last built
    info_result     \* client: what get_camera_info last returned or raised

vars == <<camera_db, archives, args, run, pc, task, start_date, end_date, dirs,
          store, log, planned, fetched, written, failed, zip_url, info_result>>

syncVars == <<camera_db, archives, args, run, pc, task, start_date, end_date,
              dirs, store, log, planned, fetched, written, failed>>

clientVars == <<zip_url, info_result>>

-----------------------------------------------------------------------------
(* Bounds of the model. *)

YearSpan == 1
MaxRuns == 2
NumEntries == 2

-----------------------------------------------------------------------------
(* Dates. *)

None == <<>>

DateLE(a, b) ==
    \/ a[1] < b[1]
    \/ a[1] = b[1] /\ a[2] < b[2]
    \/ a[1] = b[1] /\ a[2] = b[2] /\ a[3] <= b[3]

max(a, b) == IF DateLE(b, a) THEN a ELSE b

min(a, b) == IF DateLE(a, b) THEN a ELSE b

MonthOf(d) == <<d[1], d[2]>>

MonthLE(p, q) == p[1] < q[1] \/ (p[1] = q[1] /\ p[2] <= q[2])

-----------------------------------------------------------------------------
(* amos3/client.py *)

PRE_2012_URL == "2012zipfiles"

POST_2012_URL == "zipfiles"

CutoffYear == 2012

IdWidth == 8

RECURSIVE Digits(_)
\* str(n) of a natural number: its decimal digits, most significant first.
Digits(n) == IF n < 10 THEN <<n>> ELSE Append(Digits(n \div 10), n % 10)

RECURSIVE ZeroFill(_, _)
ZeroFill(s, width) == IF Len(s) >= width THEN s ELSE ZeroFill(<<0>> \o s, width)

\* "{0:0<width>d}".format(n): at least width digits, zero-filled on the left.
Format0d(n, width) == ZeroFill(Digits(n), width)

\* s[-k:] of a string.
LastChars(s, k) == IF Len(s) <= k THEN s ELSE SubSeq(s, Len(s) - k + 1, Len(s))

\* save_camera_zip_url with the years from the cutoff year on under zipfiles.
save_camera_zip_url_from_cutoff(camera_id, year, month, file_path) ==
    LET camera_id_string == Format0d(camera_id, IdWidth)
    IN  <<IF year >= CutoffYear THEN POST_2012_URL ELSE PRE_2012_URL,
          Digits(year), LastChars(camera_id_string, 2), LastChars(camera_id_string, 4),
          camera_id_string, <<Format0d(year, 4), Format0d(month, 2)>>>>

\* The URL save_camera_zip downloads, as its path segments below BASE_URL.
save_camera_zip_url(camera_id, year, month, file_path) ==
    LET camera_id_string == Format0d(camera_id, IdWidth)
        camera_id_last2 == LastChars(camera_id_string, 2)
        camera_id_last4 == LastChars(camera_id_string, 4)
        file_name == <<Format0d(year, 4), Format0d(month, 2)>>
    IN  IF year > CutoffYear
        THEN <<POST_2012_URL, Digits(year), camera_id_last2, camera_id_last4,
               camera_id_string, file_name>>
        ELSE <<PRE_2012_URL, Digits(year), camera_id_last2, camera_id_last4,
               camera_id_string, file_name>>

\* The exception get_camera_info ends with for a webcam_info response, "none"
\* when it returns.  lxml's fromstring raises XMLSyntaxError on an empty or
\* malformed document, [].pop() raises IndexError, int() raises ValueError on a
\* non-numeric text and TypeError on the None text of an empty element.
get_camera_info_exc(response) ==
    CASE response.kind \in {"empty", "malformed"} -> "XMLSyntaxError"
      [] response.kind = "no_webcam" -> "IndexError"
      [] response.kind = "webcam" /\ response.id = "text" -> "ValueError"
      [] response.kind = "webcam" /\ response.id = "blank" -> "TypeError"
      [] OTHER -> "none"

\* get_camera_info: the dict it returns holds a key per element of the
\* response; a date that is None here is a key the dict does not hold.
get_camera_info(response) ==
    LET exc == get_camera_info_exc(response)
    IN  [exc |-> exc,
         date_added |-> IF exc = "none" THEN response.date_added ELSE None,
         last_capture |-> IF exc = "none" THEN response.last_capture ELSE None]

-----------------------------------------------------------------------------
(* The month loop of amos3/data.py and amos3/s3data.py *)

MonthRangeStop == 12

\* clip_dates with the caller's dates taken as they are when given, the
\* camera's only when the caller gives none.
clip_dates_unclipped(start, end, camera_info) ==
    [go |-> camera_info.date_added # None /\ camera_info.last_capture # None,
     start |-> IF start # None THEN start ELSE camera_info.date_added,
     end |-> IF end # None THEN end ELSE camera_info.last_capture]

\* The dates after "Get start date" and "Get end date": go is FALSE when the
\* code leaves the camera there (continue, return False); start and end are
\* the values start_date and end_date hold at that point.
clip_dates(start, end, camera_info) ==
    LET s == IF start # None /\ camera_info.date_added # None
             THEN [go |-> TRUE, start |-> max(start, camera_info.date_added)]
             ELSE IF start = None /\ camera_info.date_added # None
             THEN [go |-> TRUE, start |-> camera_info.date_added]
             ELSE [go |-> FALSE, start |-> start]
        e == IF end # None /\ camera_info.last_capture # None
             THEN [go |-> TRUE, end |-> min(end, camera_info.last_capture)]
             ELSE IF end = None /\ camera_info.last_capture # None
             THEN [go |-> TRUE, end |-> camera_info.last_capture]
             ELSE [go |-> FALSE, end |-> end]
    IN  IF ~s.go THEN [go |-> FALSE, start |-> s.start, end |-> end]
        ELSE [go |-> e.go, start |-> s.start, end |-> e.end]

\* range(1, 12)
month_range == [i \in 1..(MonthRangeStop - 1) |-> i]

\* The months of one year the loop body reaches: neither skipped as an early
\* month of the first year nor as a late month of the last year.
year_months(year, start, end) ==
    LET keep(month) == /\ ~(year = start[1] /\ month < start[2])
                       /\ ~(year = end[1] /\ month > end[2])
        months == SelectSeq(month_range, keep)
    IN  [i \in 1..Len(months) |-> <<year, months[i]>>]

RECURSIVE months_from(_, _, _)
months_from(year, start, end) ==
    IF year > end[1] THEN <<>>
    ELSE year_months(year, start, end) \o months_from(year + 1, start, end)

\* for year in range(start_date.year, end_date.year + 1): for month in ...:
\* the months for which get_camera_zip is called, in order.
month_loop(start, end) == months_from(start[1], start, end)

-----------------------------------------------------------------------------
(* The upstream archives and the destination store *)

PartialCount == 1

Kinds == {"ok", "absent", "corrupt", "partial", "big", "bigfail"}

\* What get_camera_zip(camera_id, year, month) meets: "ok" an archive that
\* opens and extracts; "absent" no content, it returns None; "corrupt" it
\* raises BadZipFile; "partial" the archive opens and BadZipFile is raised
\* after PartialCount members; "big" and "bigfail" MemoryError is raised, and
\* the wget/unzip fallback of data.py then works or does not.
get_camera_zip(camera_id, year, month) ==
    IF <<year, month>> \in DOMAIN archives THEN archives[<<year, month>>] ELSE "ok"

InfoKey(camera_id) == <<camera_id, 0, 0, 0>>

CameraPath(camera_id) == <<camera_id>>

MemberKey(camera_id, ym, n) == <<camera_id, ym[1], ym[2], n>>

MemberBytes(ym, n) == <<ym[1], ym[2], n>>

\* json.dump of the camera info with its dates in ISO format.
InfoBytes(camera_info) == <<camera_info.date_added, camera_info.last_capture>>

EmptyStore == [k \in {} |-> <<>>]

\* A write that keeps a file of that name and adds the new one beside it.
write_file_beside(files, key, body) ==
    LET name == IF key \in DOMAIN files THEN [key EXCEPT ![4] = @ + 100] ELSE key
    IN  [k \in DOMAIN files \cup {name} |-> IF k = name THEN body ELSE files[k]]

\* A file written below the camera's directory: open(..., "w") and
\* ZipFile.extract both replace a file of that name.
write_file(files, key, body) ==
    [k \in DOMAIN files \cup {key} |-> IF k = key THEN body ELSE files[k]]

\* s3_client.put_object: the object of that key is replaced.
put_object(objects, key, body) ==
    [k \in DOMAIN objects \cup {key} |-> IF k = key THEN body ELSE objects[k]]

\* s3_client.head_object succeeds for the key of an object, and for no other
\* path: a prefix of keys is not an object.
s3_path_exists(path, objects) == path \in DOMAIN objects

RECURSIVE extract_members(_, _, _, _)
\* for zip_member_name in camera_zip.namelist(): camera_zip.extract(...),
\* the first n members.
extract_members(files, camera_id, ym, n) ==
    IF n = 0 THEN files
    ELSE write_file(extract_members(files, camera_id, ym, n - 1),
                    MemberKey(camera_id, ym, n), MemberBytes(ym, n))

RECURSIVE put_members(_, _, _, _)
\* for zip_member_name in camera_zip.namelist(): put_object(...), the first n.
put_members(objects, camera_id, ym, n) ==
    IF n = 0 THEN objects
    ELSE put_object(put_members(objects, camera_id, ym, n - 1),
                    MemberKey(camera_id, ym, n), MemberBytes(ym, n))

MemberKeys(camera_id, ym, n) == {MemberKey(camera_id, ym, i) : i \in 1..n}

-----------------------------------------------------------------------------
(* One camera's sync, as the outcome of each of its steps *)

Sequential == args.workers = 1

\* What a step leaves: the camera's task, the destination, the locals of
\* data.py, and what the step fetched, wrote and failed to merge.
Base(i) ==
    [st |-> task[i].st, todo |-> task[i].todo, ret |-> task[i].ret,
     store |-> store, dirs |-> dirs,
     start |-> start_date, end |-> end_date,
     plan |-> <<>>, fetch |-> {}, wrote |-> {}, fail |-> {}]

\* data.build_image_database, the body of "for camera_id in camera_id_list"
\* down to the month loop; ok is whether info.json can be opened for writing.
data_camera_step(i, ok) ==
    LET camera_id == args.camera_id_list[i]
        camera_info == get_camera_info(camera_db[camera_id])
        b == Base(i)
        made == [b EXCEPT !.dirs = dirs \cup {camera_id}]
        clip == clip_dates(start_date, end_date, camera_info)
    IN  IF camera_info.exc # "none"
        THEN [b EXCEPT !.st = "raised", !.ret = camera_info.exc]
        ELSE IF camera_id \in dirs /\ args.skip_existing
        THEN [b EXCEPT !.st = "finished"]
        ELSE IF ~ok
        THEN [made EXCEPT !.st = "raised", !.ret = "OSError"]
        ELSE IF camera_info.date_added = None \/ camera_info.last_capture = None
        THEN [made EXCEPT !.st = "raised", !.ret = "KeyError",
                          !.store = write_file(store, InfoKey(camera_id), <<>>),
                          !.wrote = {InfoKey(camera_id)}]
        ELSE LET saved == [made EXCEPT
                     !.store = write_file(store, InfoKey(camera_id), InfoBytes(camera_info)),
                     !.wrote = {InfoKey(camera_id)},
                     !.start = clip.start, !.end = clip.end]
             IN  IF ~clip.go \/ month_loop(clip.start, clip.end) = <<>>
                 THEN [saved EXCEPT !.st = "finished"]
                 ELSE [saved EXCEPT !.st = "months",
                                    !.todo = month_loop(clip.start, clip.end),
                                    !.plan = month_loop(clip.start, clip.end)]

\* except BadZipFile with a break in place of the continue: the month loop ends.
data_bad_zip_break(b, ym) ==
    [b EXCEPT !.fail = {ym}, !.todo = <<>>, !.st = "finished"]

\* data.py, except BadZipFile: print and continue with the next month.
data_bad_zip(b, ym) == [b EXCEPT !.fail = {ym}]

\* s3data.py, except BadZipFile: print and continue with the next month.
s3_bad_zip(b, ym) == [b EXCEPT !.fail = {ym}]

\* data.build_image_database, one pass of the month loop's body; n is how
\* many members extract before the filesystem fails (NumEntries: it does not).
data_month_step(i, n) ==
    LET camera_id == args.camera_id_list[i]
        ym == Head(task[i].todo)
        rest == Tail(task[i].todo)
        kind == get_camera_zip(camera_id, ym[1], ym[2])
        b == [Base(i) EXCEPT !.fetch = {ym}, !.todo = rest,
                             !.st = IF rest = <<>> THEN "finished" ELSE "months"]
    IN  CASE kind \in {"absent", "bigfail"} -> [b EXCEPT !.fail = {ym}]
          [] kind = "corrupt" -> data_bad_zip(b, ym)
          [] kind = "partial" ->
                data_bad_zip(
                    [b EXCEPT !.store = extract_members(store, camera_id, ym, PartialCount),
                              !.wrote = MemberKeys(camera_id, ym, PartialCount)], ym)
          [] kind = "big" ->
                [b EXCEPT !.store = extract_members(store, camera_id, ym, NumEntries),
                          !.wrote = MemberKeys(camera_id, ym, NumEntries)]
          [] OTHER ->
                IF n = NumEntries
                THEN [b EXCEPT !.store = extract_members(store, camera_id, ym, n),
                               !.wrote = MemberKeys(camera_id, ym, n)]
                ELSE [b EXCEPT !.store = extract_members(store, camera_id, ym, n),
                               !.wrote = MemberKeys(camera_id, ym, n),
                               !.st = "raised", !.ret = "OSError"]

\* s3data.build_camera_image_database down to the month loop; ok is whether
\* put_object of info.json answers 200.
s3_camera_step(i, ok) ==
    LET camera_id == args.camera_id_list[i]
        camera_info == get_camera_info(camera_db[camera_id])
        b == Base(i)
        clip == clip_dates(args.start_date, args.end_date, camera_info)
    IN  IF camera_info.exc # "none"
        THEN [b EXCEPT !.st = "raised", !.ret = camera_info.exc]
        ELSE IF s3_path_exists(CameraPath(camera_id), store) /\ args.skip_existing
        THEN [b EXCEPT !.st = "finished", !.ret = "True"]
        ELSE IF camera_info.date_added = None \/ camera_info.last_capture = None
        THEN [b EXCEPT !.st = "raised", !.ret = "KeyError"]
        ELSE IF ~ok
        THEN [b EXCEPT !.st = "raised", !.ret = "RuntimeError"]
        ELSE LET saved == [b EXCEPT
                     !.store = put_object(store, InfoKey(camera_id), InfoBytes(camera_info)),
                     !.wrote = {InfoKey(camera_id)}]
             IN  IF ~clip.go
                 THEN [saved EXCEPT !.st = "finished", !.ret = "False"]
                 ELSE IF month_loop(clip.start, clip.end) = <<>>
                 THEN [saved EXCEPT !.st = "finished", !.ret = "True"]
                 ELSE [saved EXCEPT !.st = "months",
                                    !.todo = month_loop(clip.start, clip.end),
                                    !.plan = month_loop(clip.start, clip.end)]

\* s3data.build_camera_image_database, one pass of the month loop's body; n
\* is how many members are put before put_object answers other than 200.
s3_month_step(i, n) ==
    LET camera_id == args.camera_id_list[i]
        ym == Head(task[i].todo)
        rest == Tail(task[i].todo)
        kind == get_camera_zip(camera_id, ym[1], ym[2])
        b == [Base(i) EXCEPT !.fetch = {ym}, !.todo = rest,
                             !.st = IF rest = <<>> THEN "finished" ELSE "months",
                             !.ret = IF rest = <<>> THEN "True" ELSE "none"]
    IN  CASE kind = "absent" -> [b EXCEPT !.fail = {ym}]
          [] kind = "corrupt" -> s3_bad_zip(b, ym)
          [] kind = "partial" ->
                s3_bad_zip(
                    [b EXCEPT !.store = put_members(store, camera_id, ym, PartialCount),
                              !.wrote = MemberKeys(camera_id, ym, PartialCount)], ym)
          [] kind \in {"big", "bigfail"} ->
                [b EXCEPT !.st = "raised", !.ret = "MemoryError", !.fail = {ym}]
          [] OTHER ->
                IF n = NumEntries
                THEN [b EXCEPT !.store = put_members(store, camera_id, ym, n),
                               !.wrote = MemberKeys(camera_id, ym, n)]
                ELSE [b EXCEPT !.store = put_members(store, camera_id, ym, n),
                               !.wrote = MemberKeys(camera_id, ym, n),
                               !.st = "raised", !.ret = "RuntimeError"]

-----------------------------------------------------------------------------
(* The actions *)

Pending == [st |-> "pending", todo |-> <<>>, ret |-> "none"]

NoCall == [outcome |-> "none", ret |-> "none", after |-> EmptyStore]

Positions == 1..Len(args.camera_id_list)

\* The exception of a camera's sync leaves build_image_database at once when
\* the cameras are synced in its own loop.
Apply(i, o) ==
    /\ task' = [task EXCEPT ![i] = [st |-> o.st, todo |-> o.todo, ret |-> o.ret]]
    /\ store' = o.store
    /\ dirs' = o.dirs
    /\ start_date' = o.start
    /\ end_date' = o.end
    /\ planned' = planned \cup
                     {<<run, args.camera_id_list[i], o.plan[k][1], o.plan[k][2]>> :
                        k \in DOMAIN o.plan}
    /\ fetched' = fetched \cup
                     {<<run, args.camera_id_list[i], ym[1], ym[2]>> : ym \in o.fetch}
    /\ written' = written \cup {<<run, k>> : k \in o.wrote}
    /\ failed' = failed \cup
                    {<<run, args.camera_id_list[i], ym[1], ym[2]>> : ym \in o.fail}
    /\ IF o.st = "raised" /\ Sequential
       THEN /\ pc' = "raised"
            /\ log' = [log EXCEPT ![run] = [@ EXCEPT !.outcome = "raised",
                                                     !.ret = o.ret,
                                                     !.after = o.store]]
       ELSE UNCHANGED <<pc, log>>
    /\ UNCHANGED <<camera_db, archives, args, run, clientVars>>

\* The caller calls build_image_database(camera_id_list, start_date, end_date,
\* skip_existing), with the same arguments every time.
Call ==
    /\ pc \in {"idle", "returned", "raised", "crashed"}
    /\ run < args.calls
    /\ run' = run + 1
    /\ pc' = "running"
    /\ task' = [i \in Positions |-> Pending]
    /\ start_date' = args.start_date
    /\ end_date' = args.end_date
    /\ log' = [log EXCEPT ![run + 1] = [outcome |-> "running", ret |-> "none",
                                        after |-> store]]
    /\ UNCHANGED <<camera_db, archives, args, dirs, store, planned, fetched,
                   written, failed, clientVars>>

\* Whose turn it is: the loop takes the cameras in order, a pool of workers
\* takes any camera not yet taken while a worker is free.
MayStart(i) ==
    /\ pc = "running"
    /\ task[i].st = "pending"
    /\ IF Sequential
       THEN \A j \in 1..(i - 1) : task[j].st = "finished"
       ELSE Cardinality({j \in Positions : task[j].st = "months"}) < args.workers

\* Whether a write of info.json succeeds: it may fail where the destination
\* is one that can fail.
WriteOutcomes == IF args.faults THEN BOOLEAN ELSE {TRUE}

\* How many members of an archive reach the destination before a write
\* fails: none, or all of them when no write fails.
FailPoints == IF args.faults THEN {0, NumEntries} ELSE {NumEntries}

data_camera(i) ==
    /\ args.module = "data"
    /\ MayStart(i)
    /\ \E ok \in WriteOutcomes : Apply(i, data_camera_step(i, ok))

data_month(i) ==
    /\ args.module = "data"
    /\ pc = "running"
    /\ task[i].st = "months"
    /\ \E n \in FailPoints : Apply(i, data_month_step(i, n))

s3_camera(i) ==
    /\ args.module = "s3data"
    /\ MayStart(i)
    /\ \E ok \in WriteOutcomes : Apply(i, s3_camera_step(i, ok))

s3_month(i) ==
    /\ args.module = "s3data"
    /\ pc = "running"
    /\ task[i].st = "months"
    /\ \E n \in FailPoints : Apply(i, s3_month_step(i, n))

\* return True, at the end of build_image_database.
Return ==
    /\ pc = "running"
    /\ \A i \in Positions : task[i].st = "finished"
    /\ pc' = "returned"
    /\ log' = [log EXCEPT ![run] = [@ EXCEPT !.outcome = "returned",
                                             !.ret = "True",
                                             !.after = store]]
    /\ UNCHANGED <<camera_db, archives, args, run, task, start_date, end_date,
                   dirs, store, planned, fetched, written, failed, clientVars>>

\* pool.starmap re-raises the exception of a worker's call, and leaving the
\* "with" block terminates the pool: at once, or when every call has ended,
\* depending on the interpreter.
PoolRaise(i) ==
    /\ pc = "running"
    /\ ~Sequential
    /\ task[i].st = "raised"
    /\ pc' = "raised"
    /\ task' = [j \in Positions |->
                  IF task[j].st \in {"pending", "months"}
                  THEN [task[j] EXCEPT !.st = "killed"] ELSE task[j]]
    /\ log' = [log EXCEPT ![run] = [@ EXCEPT !.outcome = "raised",
                                             !.ret = task[i].ret,
                                             !.after = store]]
    /\ UNCHANGED <<camera_db, archives, args, run, start_date, end_date, dirs,
                   store, planned, fetched, written, failed, clientVars>>

\* The process is interrupted while build_image_database runs.
Crash ==
    /\ pc = "running"
    /\ pc' = "crashed"
    /\ task' = [j \in Positions |->
                  IF task[j].st \in {"pending", "months"}
                  THEN [task[j] EXCEPT !.st = "killed"] ELSE task[j]]
    /\ log' = [log EXCEPT ![run] = [@ EXCEPT !.outcome = "crashed", !.after = store]]
    /\ UNCHANGED <<camera_db, archives, args, run, start_date, end_date, dirs,
                   store, planned, fetched, written, failed, clientVars>>

-----------------------------------------------------------------------------
(* The client's functions, called on their own *)

CameraIds == {0, 65, 17345, 21804, 30815, 99999999}

ClientYears == (CutoffYear - 1)..(CutoffYear + YearSpan)

Responses ==
    [kind : {"empty", "malformed", "no_webcam"}, id : {"digits"},
     date_added : {None}, last_capture : {None}]
    \cup [kind : {"webcam"}, id : {"digits", "text", "blank"},
          date_added : {None, <<CutoffYear, 11, 20>>},
          last_capture : {None, <<CutoffYear + YearSpan, 2, 10>>}]

save_camera_zip(camera_id, year, month, file_path) ==
    /\ zip_url.url = <<>>
    /\ zip_url' = [camera_id |-> camera_id, year |-> year, month |-> month,
                   file_path |-> file_path,
                   url |-> save_camera_zip_url(camera_id, year, month, file_path)]
    /\ UNCHANGED <<syncVars, info_result>>

call_get_camera_info(response) ==
    /\ info_result.response.kind = "none"
    /\ info_result' = [response |-> response, result |-> get_camera_info(response)]
    /\ UNCHANGED <<syncVars, zip_url>>

-----------------------------------------------------------------------------
(* Initial states and specifications *)

Y0 == CutoffYear

Y1 == CutoffYear + YearSpan

Webcam(added, last) ==
    [kind |-> "webcam", id |-> "digits", date_added |-> added, last_capture |-> last]

NoWebcam ==
    [kind |-> "no_webcam", id |-> "digits", date_added |-> None, last_capture |-> None]

NotCalled == [kind |-> "none", id |-> "digits", date_added |-> None, last_capture |-> None]

\* No archive other than "ok".
AllOk == [ym \in {} |-> "ok"]

ClientIdle ==
    /\ zip_url = [camera_id |-> 0, year |-> 0, month |-> 0, file_path |-> "None",
                  url |-> <<>>]
    /\ info_result = [response |-> NotCalled, result |-> get_camera_info(NotCalled)]

\* Before the first call: an empty destination, and the upstream and the
\* arguments drawn from the given sets.  A scenario is a camera list with the
\* webcam_info response of each of its cameras.
InitSync(scenarios, modes, requests, skips, archivesets, faults, calls) ==
    /\ archives \in archivesets
    /\ \E sc \in scenarios, m \in modes, r \in requests, sk \in skips :
          /\ camera_db = sc.db
          /\ args = [module |-> m[1], workers |-> m[2], camera_id_list |-> sc.list,
                     start_date |-> r[1], end_date |-> r[2], skip_existing |-> sk,
                     faults |-> faults, calls |-> calls]
    /\ run = 0
    /\ pc = "idle"
    /\ task = <<>>
    /\ start_date = None
    /\ end_date = None
    /\ dirs = {}
    /\ store = EmptyStore
    /\ log = [r \in 1..calls |-> NoCall]
    /\ planned = {}
    /\ fetched = {}
    /\ written = {}
    /\ failed = {}
    /\ ClientIdle

Modes == {<<"data", 1>>, <<"s3data", 1>>, <<"s3data", 2>>}

One(c, r) == [x \in {c} |-> r]

Two(c, r, d, q) == [x \in {c, d} |-> IF x = c THEN r ELSE q]

\* Camera 65 with January and February to sync, alone, after camera 21804
\* that is not known upstream, or before camera 21804 with February to sync.
Scenarios ==
    LET w65 == Webcam(<<Y0, 12, 20>>, <<Y0 + 1, 2, 10>>)
        w21804 == Webcam(<<Y0 + 1, 2, 5>>, <<Y0 + 1, 2, 10>>)
    IN  {[list |-> <<65>>, db |-> One(65, w65)],
         [list |-> <<21804, 65>>, db |-> Two(65, w65, 21804, NoWebcam)],
         [list |-> <<65, 21804>>, db |-> Two(65, w65, 21804, w21804)]}

\* Every archive available, or January's of one of the other kinds.
ArchiveSets == {AllOk} \cup [{<<Y0 + 1, 1>>} -> Kinds \ {"ok"}]

Init ==
    InitSync(Scenarios, Modes, {<<None, None>>}, BOOLEAN, ArchiveSets, TRUE, MaxRuns)

Next ==
    \/ Call
    \/ \E i \in Positions : data_camera(i)
    \/ \E i \in Positions : data_month(i)
    \/ \E i \in Positions : s3_camera(i)
    \/ \E i \in Positions : s3_month(i)
    \/ \E i \in Positions : PoolRaise(i)
    \/ Return
    \/ Crash

Spec == Init /\ [][Next]_vars

\* The planner's inputs drawn widely: camera windows and requested ranges over
\* the months around the turn of a year, one call, every archive available
\* and no write failing.
PlanMonths == {2, 11, 12}

PlanDays == {10, 20}

RequestDay == 15

Years == Y0..Y1

PlanDates == {<<y, m, d>> : y \in Years, m \in PlanMonths, d \in PlanDays}

RequestDates == {None} \cup {<<y, m, RequestDay>> : y \in Years, m \in {2, 12}}

InitPlan ==
    InitSync({[list |-> l,
               db |-> Two(65, Webcam(w[1], w[2]),
                          21804, Webcam(<<Y1, 2, 10>>, <<Y1, 2, 20>>))] :
                 l \in {<<65>>, <<21804, 65>>},
                 w \in {v \in PlanDates \X PlanDates : DateLE(v[1], v[2])}},
             Modes, RequestDates \X RequestDates, {TRUE}, {AllOk}, FALSE, 1)

NextPlan ==
    \/ Call
    \/ \E i \in Positions : data_camera(i)
    \/ \E i \in Positions : data_month(i)
    \/ \E i \in Positions : s3_camera(i)
    \/ \E i \in Positions : s3_month(i)
    \/ Return

SpecPlan == InitPlan /\ [][NextPlan]_vars

\* One camera whose record may lack date_added or last_capture, synced once
\* with the requested ranges of the planner's inputs and no write failing.
WindowAdded == {None, <<Y0, 2, 10>>}

WindowLast == {None, <<Y1, 11, 20>>}

InitWindow ==
    InitSync({[list |-> <<65>>, db |-> One(65, Webcam(a, l))] :
                 a \in WindowAdded, l \in WindowLast},
             Modes, RequestDates \X RequestDates, {TRUE}, {AllOk}, FALSE, 1)

NextWindow ==
    \/ Call
    \/ \E i \in Positions : data_camera(i)
    \/ \E i \in Positions : data_month(i)
    \/ \E i \in Positions : s3_camera(i)
    \/ \E i \in Positions : s3_month(i)
    \/ \E i \in Positions : PoolRaise(i)
    \/ Return

SpecWindow == InitWindow /\ [][NextWindow]_vars

\* The client's functions on their own, the downloaders idle.
InitClient ==
    InitSync({[list |-> <<65>>, db |-> One(65, NoWebcam)]}, {<<"data", 1>>},
             {<<None, None>>}, {TRUE}, {AllOk}, FALSE, 1)

NextClient ==
    \/ \E c \in CameraIds, y \in ClientYears, m \in 1..12, f \in {"None", "out.zip"} :
          save_camera_zip(c, y, m, f)
    \/ \E r \in Responses : call_get_camera_info(r)

SpecClient == InitClient /\ [][NextClient]_vars

-----------------------------------------------------------------------------
(* The claims *)

\* The months p..q, both included.
MonthsBetween(p, q) ==
    {ym \in (p[1]..q[1]) \X (1..12) : MonthLE(p, ym) /\ MonthLE(ym, q)}

HasWindow(camera_id) ==
    /\ camera_db[camera_id].kind = "webcam"
    /\ camera_db[camera_id].date_added # None
    /\ camera_db[camera_id].last_capture # None

ListedCameras == {args.camera_id_list[i] : i \in Positions}

\* C1: when a call without start and end dates has returned, for every camera
\* of the list with both dates a fetch was attempted for every month from the
\* month of date_added to the month of last_capture, December included.
C1_EveryMonthOfWindowAttempted ==
    (pc = "returned" /\ args.start_date = None /\ args.end_date = None) =>
        \A c \in ListedCameras :
            HasWindow(c) =>
                \A ym \in MonthsBetween(MonthOf(camera_db[c].date_added),
                                         MonthOf(camera_db[c].last_capture)) :
                    <<run, c, ym[1], ym[2]>> \in fetched

\* C2: every month for which get_camera_zip was called lies, by year and
\* month, within the camera's date_added..last_capture and within the
\* caller's start_date..end_date, whichever of the two the caller gave.
C2_FetchedWithinBothRanges ==
    \A f \in fetched :
        LET record == camera_db[f[2]]
            ym == <<f[3], f[4]>>
        IN  (HasWindow(f[2]) /\ DateLE(record.date_added, record.last_capture)) =>
                /\ MonthLE(MonthOf(record.date_added), ym)
                /\ MonthLE(ym, MonthOf(record.last_capture))
                /\ args.start_date # None => MonthLE(MonthOf(args.start_date), ym)
                /\ args.end_date # None => MonthLE(ym, MonthOf(args.end_date))

\* A month was fetched for a camera whose window reaches beyond the caller's
\* range at both ends.
C2_Witness ==
    \E f \in fetched :
        /\ args.start_date # None
        /\ args.end_date # None
        /\ ~DateLE(args.start_date, camera_db[f[2]].date_added)
        /\ ~DateLE(camera_db[f[2]].last_capture, args.end_date)


KeysOf(camera_id) == {k \in DOMAIN store : k[1] = camera_id}

Merged(camera_id, ym) ==
    \A n \in 1..NumEntries :
        /\ MemberKey(camera_id, ym, n) \in DOMAIN store
        /\ store[MemberKey(camera_id, ym, n)] = MemberBytes(ym, n)

\* C3: in a second call with skip_existing=True, after a first call that
\* returned, no archive is fetched and nothing is written for a camera whose
\* info.json and images the first call wrote.
C3_SecondSyncFetchesAndWritesNothing ==
    (run = 2 /\ log[1].outcome = "returned" /\ args.skip_existing) =>
        \A c \in ListedCameras :
            (/\ <<1, InfoKey(c)>> \in written
             /\ \E w \in written : w[1] = 1 /\ w[2][1] = c /\ w[2] # InfoKey(c)) =>
                /\ ~\E f \in fetched : f[1] = 2 /\ f[2] = c
                /\ ~\E w \in written : w[1] = 2 /\ w[2][1] = c

\* C4: when a second call with skip_existing=False returns after a first call
\* that returned, the destination holds the names and bytes the first call left.
C4_SecondRunLeavesStoreAsFirst ==
    (run = 2 /\ pc = "returned" /\ log[1].outcome = "returned" /\ ~args.skip_existing) =>
        store = log[1].after

\* A second call with skip_existing=False returned, having written again
\* members the first call had written.
C4_Witness ==
    /\ run = 2 /\ pc = "returned" /\ log[1].outcome = "returned" /\ ~args.skip_existing
    /\ \E w \in written :
          /\ w[1] = 2 /\ w[2] # InfoKey(w[2][1])
          /\ <<1, w[2]>> \in written

C6_RerunAfterCrashCompletes ==
    (run = 2 /\ pc = "returned" /\ log[1].outcome = "crashed" /\ args.skip_existing) =>
        \A p \in planned :
            (/\ p[1] = 1
             /\ <<1, InfoKey(p[2])>> \in written
             /\ get_camera_zip(p[2], p[3], p[4]) = "ok") =>
                Merged(p[2], <<p[3], p[4]>>)

\* C7: in a call over several cameras, when one camera's sync ends with an
\* exception the call of build_image_database does not end with it, and when
\* the call has returned every other camera of the list was synced to its end.
C7_CameraFailureStaysWithCamera ==
    \A i, j \in DOMAIN task :
        (i # j /\ task[i].st = "raised") =>
            /\ pc # "raised"
            /\ pc = "returned" => task[j].st = "finished"

\* C8: of two cameras synced to the end in one call, one with a month that
\* failed and one whose months were all merged, the results differ.
C8_FailedMonthsShowInResult ==
    \A i, j \in DOMAIN task :
        (/\ task[i].st = "finished" /\ task[j].st = "finished"
         /\ \E p \in failed : p[1] = run /\ p[2] = args.camera_id_list[i]
         /\ \E q \in fetched : q[1] = run /\ q[2] = args.camera_id_list[j]
         /\ ~\E q \in failed : q[1] = run /\ q[2] = args.camera_id_list[j]) =>
            task[i].ret # task[j].ret

\* The decimal digits of n, the last width of them.
LastDigits(n, width) == [k \in 1..width |-> (n \div 10 ^ (width - k)) % 10]

\* C9: the address save_camera_zip builds is, for every camera id, year and
\* month: zipfiles when year > 2012 and 2012zipfiles otherwise, the year, the
\* last 2 and the last 4 digits of the 8-digit id, the 8-digit id, YYYY.MM.zip;
\* the file path given plays no part.
C9_AddressFromIdYearMonth ==
    zip_url.url # <<>> =>
        /\ zip_url.url[1] = IF zip_url.year > 2012 THEN "zipfiles" ELSE "2012zipfiles"
        /\ zip_url.url[2] = LastDigits(zip_url.year, 4)
        /\ zip_url.url[3] = LastDigits(zip_url.camera_id, 2)
        /\ zip_url.url[4] = LastDigits(zip_url.camera_id, 4)
        /\ zip_url.url[5] = LastDigits(zip_url.camera_id, 8)
        /\ zip_url.url[6] = <<LastDigits(zip_url.year, 4), LastDigits(zip_url.month, 2)>>

\* The address of an archive of the cutoff year itself, for a camera id that
\* needs zero-filling, built with a file path given.
C9_Witness ==
    /\ zip_url.url # <<>>
    /\ zip_url.year = 2012
    /\ zip_url.camera_id = 65
    /\ zip_url.file_path = "out.zip"

\* C10: get_camera_info ends with ValueError for a response that is empty,
\* malformed or holds no webcam record.
C10_NoRecordRaisesValueError ==
    info_result.response.kind \in {"empty", "malformed", "no_webcam"} =>
        info_result.result.exc = "ValueError"

\* The start the planner is to work with: the later of the requested and the
\* camera's date when both are present, else the one that is present.
EffectiveStart(camera_id) ==
    LET requested == args.start_date
        first_seen == camera_db[camera_id].date_added
    IN  IF requested # None /\ first_seen # None THEN max(requested, first_seen)
        ELSE IF requested # None THEN requested ELSE first_seen

\* The end the planner is to work with: the earlier of the two when both are
\* present, else the one that is present.
EffectiveEnd(camera_id) ==
    LET requested == args.end_date
        last_seen == camera_db[camera_id].last_capture
    IN  IF requested # None /\ last_seen # None THEN min(requested, last_seen)
        ELSE IF requested # None THEN requested ELSE last_seen

\* Exactly one of the requested date and the camera's date is present, at the
\* start or at the end of the window.
OnePresent(camera_id) ==
    \/ (args.start_date = None) # (camera_db[camera_id].date_added = None)
    \/ (args.end_date = None) # (camera_db[camera_id].last_capture = None)

\* C11: when a camera's sync has ended, and of the requested date and the
\* camera's date exactly one is present at the start or at the end, and a
\* start and an end are present with the start not after the end, the sync
\* went on to the month loop with a plan that is not empty.
C11_OnePresentDateProceeds ==
    \A i \in DOMAIN task :
        LET c == args.camera_id_list[i]
        IN  (/\ task[i].st \in {"finished", "raised"}
             /\ camera_db[c].kind = "webcam"
             /\ OnePresent(c)
             /\ EffectiveStart(c) # None /\ EffectiveEnd(c) # None
             /\ DateLE(EffectiveStart(c), EffectiveEnd(c))) =>
                \E p \in planned : p[1] = run /\ p[2] = c

\* C12: no archive is fetched for a camera whose effective start, the later
\* of the requested start and date_added, is after its effective end, the
\* earlier of the requested end and last_capture; days count, also within one
\* year and month.
C12_NoFetchWhenStartAfterEnd ==
    \A f \in fetched :
        (/\ f[1] = run
         /\ EffectiveStart(f[2]) # None
         /\ EffectiveEnd(f[2]) # None) =>
            DateLE(EffectiveStart(f[2]), EffectiveEnd(f[2]))

\* The months a sync of this camera alone, with the caller's dates, fetches.
StandaloneMonths(camera_id) ==
    LET clip == clip_dates(args.start_date, args.end_date,
                           get_camera_info(camera_db[camera_id]))
        months == month_loop(clip.start, clip.end)
    IN  IF clip.go THEN {months[k] : k \in DOMAIN months} ELSE {}

FetchedMonths(camera_id) ==
    {<<f[3], f[4]>> : f \in {g \in fetched : g[1] = run /\ g[2] = camera_id}}

\* C13: when a call over several cameras with a start and an end date given
\* has returned, the months fetched for each camera are those a sync of that
\* camera alone with the same dates fetches, wherever the camera stands in
\* the list.
C13_BatchMonthsAsStandalone ==
    (/\ pc = "returned"
     /\ Len(args.camera_id_list) > 1
     /\ args.start_date # None /\ args.end_date # None) =>
        \A c \in ListedCameras : FetchedMonths(c) = StandaloneMonths(c)

\* The camera was passed over in the current call: its sync ended without
\* writing info.json.
Skipped(i) ==
    /\ task[i].st = "finished"
    /\ <<run, InfoKey(args.camera_id_list[i])>> \notin written

\* C14: a camera is passed over only when skip_existing is true and its
\* info.json is in the destination; where info.json is absent at the start
\* of the sync, also after an earlier call that did not end, the camera is
\* synced.
C14_SkippedOnlyWithRecord ==
    \A i \in DOMAIN task :
        Skipped(i) =>
            /\ args.skip_existing
            /\ InfoKey(args.camera_id_list[i]) \in DOMAIN store

=============================================================================
